---------------------------- MODULE Spec2Model ----------------------------
(***************************************************************************)
(* Library Management System (src/main.py): the SQLite store of books,     *)
(* students and issued_books, and the handlers that add, update, delete,   *)
(* issue and return books.  Every handler opens its own connection, runs   *)
(* its statements and commits; what a handler leaves uncommitted when it   *)
(* raises is discarded by conn.close().  The variables hold the committed  *)
(* content of library.db, the date, the page on show with the table of     *)
(* the Return page, and two history variables.                             *)
(*                                                                         *)
(* Spec runs the handlers as operations, whatever page is shown;           *)
(* SpecClock adds the passing of days, SpecNoted the history, SpecAnyRow   *)
(* returns of loan ids that are in no row, SpecIds books added after       *)
(* deletes; SpecWindow runs them as one instance of the application does,  *)
(* page by page.                                                           *)
(*                                                                         *)
(* Text typed into an entry is a sequence of one-character strings, so     *)
(* that strip(), int() and SQLite's integer affinity are computed.         *)
(***************************************************************************)
EXTENDS Integers, Sequences, FiniteSets, TLC

VARIABLES
    books, book_seq, students, issued_books,   \* the tables of library.db
    today,                                      \* date.today()
    returned_again,  \* history: some loan has been returned a second time
    given            \* history, kept until a loan is returned a second
                     \* time: for the books that no UpdateBook has
                     \* changed, the quantity AddBook gave them
VARIABLES
    page,            \* the frame that show_frame raised last
    tree             \* the rows of the table of ReturnBookFrame

vars ==
    <<books, book_seq, students, issued_books, today, returned_again, given,
      page, tree>>

\* ------------------------------------------------------------ bounds
\* rows of books (and, but in SpecIds, book ids)
MaxBooks == 1
\* rows of issued_books
MaxLoans == 2
\* the largest quantity typed in; returns may take a book one above it
MaxQty == 2
\* days the clock runs through
MaxDay == 2
\* book ids, where books are added in the place of deleted ones
MaxIds == MaxBooks + 1

\* ------------------------------------------------------------ text
\* return_date TEXT (nullable): NULL; the days are numbered from 1
NULL == 0

DigitChars == <<"0", "1", "2", "3", "4", "5", "6", "7", "8", "9">>

IsDigit(c) == \E k \in 1..10 : DigitChars[k] = c

DigitValue(c) == (CHOOSE k \in 1..10 : DigitChars[k] = c) - 1

IsSpace(c) == c = " "

RECURSIVE LStrip(_)
LStrip(t) == IF t # <<>> /\ IsSpace(Head(t)) THEN LStrip(Tail(t)) ELSE t

RECURSIVE RStrip(_)
RStrip(t) ==
    IF t # <<>> /\ IsSpace(t[Len(t)]) THEN RStrip(SubSeq(t, 1, Len(t) - 1)) ELSE t

\* str.strip()
Strip(t) == RStrip(LStrip(t))

RECURSIVE DigitsValue(_, _)
DigitsValue(t, acc) ==
    IF t = <<>> THEN acc ELSE DigitsValue(Tail(t), 10 * acc + DigitValue(Head(t)))

AllDigits(t) == t # <<>> /\ \A k \in 1..Len(t) : IsDigit(t[k])

\* int(text): an optional sign and decimal digits, ValueError otherwise
PyInt(t) ==
    LET s == Strip(t)
        signed == s # <<>> /\ Head(s) \in {"-", "+"}
        body == IF signed THEN Tail(s) ELSE s
    IN  IF AllDigits(body)
        THEN [ok |-> TRUE,
              value |-> IF signed /\ Head(s) = "-"
                        THEN 0 - DigitsValue(body, 0) ELSE DigitsValue(body, 0)]
        ELSE [ok |-> FALSE, value |-> 0]

\* A TEXT parameter compared with, or stored into, an INTEGER column: text
\* that is a well-formed integer is converted, any other text stays TEXT
\* and equals no integer.
SqlInteger(t) == PyInt(t)

NumText(n) == <<DigitChars[n + 1]>>

\* ------------------------------------------------------------ store
\* The committed content of library.db as one value.
db ==
    [books |-> books, book_seq |-> book_seq,
     students |-> students, issued_books |-> issued_books]

\* CREATE TABLE IF NOT EXISTS ...: three empty tables
init_db ==
    [books |-> <<>>, book_seq |-> 0, students |-> <<>>, issued_books |-> <<>>]

BookRow(title, author, quantity) ==
    [title |-> title, author |-> author, quantity |-> quantity]

StudentRow(name, roll_no) == [name |-> name, roll_no |-> roll_no]

IssueRow(book_id, student_id, issue_date) ==
    [book_id |-> book_id, student_id |-> student_id,
     issue_date |-> issue_date, return_date |-> NULL]

BookIds(d) == DOMAIN d.books

StudentIds(d) == DOMAIN d.students

IssueIds(d) == DOMAIN d.issued_books

QtyOf(d, b) == IF b \in BookIds(d) THEN d.books[b].quantity ELSE 0

\* Faulty variant: INTEGER PRIMARY KEY without AUTOINCREMENT, one more
\* than the largest id in the table.
NextRowId(d) ==
    IF BookIds(d) = {} THEN 1
    ELSE 1 + CHOOSE b \in BookIds(d) : \A c \in BookIds(d) : c <= b

\* id INTEGER PRIMARY KEY AUTOINCREMENT: one more than the largest id the
\* table ever held (sqlite_sequence), never the id of a deleted row.
NextBookId(d) == d.book_seq + 1

\* What a handler leaves: the committed store, the message box it showed,
\* what became of its connection ("none": never opened, "unbound": connect
\* raised and the finally clause ran into the name conn that was never
\* bound, "left_open": close() was not reached and the open connection is
\* dropped, closed only when and if the interpreter finalizes it), the
\* statement that raised ("none": no exception), and the book and loan
\* the call was about (0: none).
Out(d, result, conn, raised, book, loan) ==
    [db |-> d, result |-> result, conn |-> conn, raised |-> raised,
     book |-> book, loan |-> loan]

\* What a load leaves: the rows of the table on the page, the message
\* box, and what became of the connection.
Loaded(rows, result, conn) == [tree |-> rows, result |-> result, conn |-> conn]

\* Faulty variant: every statement is committed as it runs (autocommit),
\* so what ran before the exception stays.
KeptOnError(committed, working) == working

\* An exception before conn.commit(): the handler shows the error and the
\* connection is closed (or dropped) with its transaction uncommitted, so
\* the store keeps its last committed content.
Uncommitted(committed, working) == committed

\* ------------------------------------------------------------ AddBookFrame
InsertBook(d, title, author, qty) ==
    [d EXCEPT !.books = (NextBookId(d) :> BookRow(title, author, qty)) @@ @,
              !.book_seq = NextBookId(d)]

save_book(d, title_in, author_in, qty_in, fail) ==
    LET title == Strip(title_in)
        author == Strip(author_in)
        qty == Strip(qty_in)
        n == PyInt(qty)
    IN  IF title = <<>> \/ author = <<>> \/ qty = <<>>
        THEN Out(d, "input_error", "none", "none", 0, 0)
        ELSE IF ~n.ok \/ n.value < 0
        THEN Out(d, "input_error", "none", "none", 0, 0)
        ELSE IF fail = "connect"
        THEN Out(d, "database_error", "none", fail, 0, 0)
        ELSE IF fail \in {"insert", "commit"}
        THEN Out(Uncommitted(d, InsertBook(d, title, author, n.value)),
                 "database_error", "left_open", fail, 0, 0)
        ELSE Out(InsertBook(d, title, author, n.value),
                 "added", "closed", "none", NextBookId(d), 0)

\* ------------------------------------------------------------ ViewBooksFrame
\* UPDATE books SET title = ?, author = ?, quantity = ? WHERE id = ?
UpdateBookRow(d, book_id, title, author, qty) ==
    IF book_id \in BookIds(d)
    THEN [d EXCEPT !.books[book_id] = BookRow(title, author, qty)]
    ELSE d

save_update(d, book_id, title_in, author_in, qty_in, fail) ==
    LET title == Strip(title_in)
        author == Strip(author_in)
        qty == Strip(qty_in)
        n == PyInt(qty)
    IN  IF title = <<>> \/ author = <<>> \/ qty = <<>>
        THEN Out(d, "input_error", "none", "none", 0, 0)
        ELSE IF ~n.ok \/ n.value < 0
        THEN Out(d, "input_error", "none", "none", 0, 0)
        ELSE IF fail = "connect"
        THEN Out(d, "database_error", "none", fail, 0, 0)
        ELSE IF fail \in {"update", "commit"}
        THEN Out(Uncommitted(d, UpdateBookRow(d, book_id, title, author, n.value)),
                 "database_error", "left_open", fail, book_id, 0)
        ELSE Out(UpdateBookRow(d, book_id, title, author, n.value),
                 "updated", "closed", "none", book_id, 0)

\* Faulty variant: the delete does not look for open loans.
LoansNotChecked(d, book_id) == FALSE

\* The characters of the entries, in the order of their codes
Ascii ==
    <<" ", "%", "+", "-", "0", "1", "2", "3", "4", "5", "6", "7", "8", "9",
      "A", "B", "D", "H", "R", "S", "X", "_", "a", "b", "d", "h", "r", "s", "x">>

Code(c) == CHOOSE k \in DOMAIN Ascii : Ascii[k] = c

LowerCase == <<"a", "b", "d", "h", "r", "s", "x">>

UpperCase == <<"A", "B", "D", "H", "R", "S", "X">>

\* LIKE takes no notice of the case of a letter
Fold(c) ==
    IF \E k \in DOMAIN LowerCase : LowerCase[k] = c
    THEN UpperCase[CHOOSE k \in DOMAIN LowerCase : LowerCase[k] = c]
    ELSE c

\* text LIKE pat: % stands for any run of characters, _ for any one
RECURSIVE Like(_, _)
Like(pat, text) ==
    IF pat = <<>> THEN text = <<>>
    ELSE IF Head(pat) = "%"
    THEN Like(Tail(pat), text) \/ (text # <<>> /\ Like(pat, Tail(text)))
    ELSE /\ text # <<>>
         /\ Head(pat) = "_" \/ Fold(Head(pat)) = Fold(Head(text))
         /\ Like(Tail(pat), Tail(text))

\* ORDER BY title: s comes before t
RECURSIVE TextBefore(_, _)
TextBefore(s, t) ==
    IF s = <<>> THEN TRUE
    ELSE IF t = <<>> THEN FALSE
    ELSE IF Head(s) = Head(t) THEN TextBefore(Tail(s), Tail(t))
    ELSE Code(Head(s)) < Code(Head(t))

RECURSIVE OrderByTitle(_, _)
OrderByTitle(d, ids) ==
    IF ids = {} THEN <<>>
    ELSE LET b == CHOOSE b \in ids : \A c \in ids :
                      \/ d.books[b].title # d.books[c].title
                         /\ TextBefore(d.books[b].title, d.books[c].title)
                      \/ d.books[b].title = d.books[c].title /\ b <= c
         IN  <<b>> \o OrderByTitle(d, ids \ {b})

\* SELECT * FROM books [WHERE title LIKE ?] ORDER BY title
BookListRow(d, b) ==
    [id |-> b, title |-> d.books[b].title, author |-> d.books[b].author,
     quantity |-> d.books[b].quantity]

\* ViewBooksFrame.load_books: the table is emptied first, then filled from
\* the query; no finally closes the connection.
load_books(d, filter_text, fail) ==
    LET pat == <<"%">> \o filter_text \o <<"%">>
        ids == OrderByTitle(d, IF filter_text = <<>> THEN BookIds(d)
                               ELSE {b \in BookIds(d) : Like(pat, d.books[b].title)})
    IN  IF fail = "connect" THEN Loaded(<<>>, "database_error", "none")
        ELSE IF fail = "select" THEN Loaded(<<>>, "database_error", "left_open")
        ELSE Loaded([k \in DOMAIN ids |-> BookListRow(d, ids[k])], "listed", "closed")

\* search_action: the text of the search entry, stripped
search_action(d, query_in, fail) == load_books(d, Strip(query_in), fail)

\* SELECT * FROM issued_books WHERE book_id = ? AND return_date IS NULL
CurrentlyIssued(d, book_id) ==
    \E i \in IssueIds(d) :
        /\ d.issued_books[i].book_id = book_id
        /\ d.issued_books[i].return_date = NULL

\* DELETE FROM books WHERE id = ?
DeleteBookRow(d, book_id) ==
    [d EXCEPT !.books = [b \in BookIds(d) \ {book_id} |-> d.books[b]]]

\* selected: a row of the book table is focused; confirm: the answer to
\* "Are you sure you want to delete ...?"
delete_selected(d, selected, book_id, confirm, fail) ==
    IF ~selected
        THEN Out(d, "no_selection", "none", "none", 0, 0)
        ELSE IF ~confirm
        THEN Out(d, "cancelled", "none", "none", book_id, 0)
        ELSE IF fail = "connect"
        THEN Out(d, "database_error", "unbound", fail, book_id, 0)
        ELSE IF fail = "select"
        THEN Out(d, "database_error", "closed", fail, book_id, 0)
        ELSE IF CurrentlyIssued(d, book_id)
        THEN Out(d, "currently_issued", "closed", "none", book_id, 0)
        ELSE IF fail \in {"delete", "commit"}
        THEN Out(Uncommitted(d, DeleteBookRow(d, book_id)),
                 "database_error", "closed", fail, book_id, 0)
        ELSE Out(DeleteBookRow(d, book_id), "deleted", "closed", "none", book_id, 0)

\* ------------------------------------------------------------ IssueBookFrame
\* Faulty variant: the availability test left out.
CopiesNotChecked(d, book_id) == TRUE

\* book[0] <= 0 rejects the issue: a copy must be left
CopiesLeft(d, book_id) == d.books[book_id].quantity > 0

\* SELECT id, name FROM students WHERE roll_no = ? (0: no row)
FindStudent(d, sroll) ==
    LET S == {s \in StudentIds(d) : d.students[s].roll_no = sroll}
    IN  IF S = {} THEN 0 ELSE CHOOSE s \in S : \A t \in S : s <= t

\* INSERT INTO students (name, roll_no) VALUES (?, ?); conn.commit()
InsertStudent(d, sname, sroll) ==
    [d EXCEPT !.students = Append(@, StudentRow(sname, sroll))]

\* roll_no TEXT NOT NULL UNIQUE: the insert of a roll number already in
\* the table raises IntegrityError
RollTaken(d, sroll) == \E s \in StudentIds(d) : d.students[s].roll_no = sroll

\* Faulty variant: the new student is inserted and committed first, the
\* test for the missing name coming only after.
FindOrCreateThenCheckName(d, sroll, sname, fail) ==
    LET s == FindStudent(d, sroll)
    IN  IF s # 0
        THEN [db |-> d, result |-> "ok", student_id |-> s]
        ELSE [db |-> InsertStudent(d, sname, sroll),
              result |-> IF sname = <<>> THEN "name_required" ELSE "ok",
              student_id |-> Len(d.students) + 1]

\* Faulty variant: a student found by roll number takes the name typed in
\* (an upsert instead of a lookup).
FindOrRenameStudent(d, sroll, sname, fail) ==
    LET s == FindStudent(d, sroll)
    IN  IF s # 0
        THEN [db |-> IF sname = <<>> THEN d
                     ELSE [d EXCEPT !.students[s].name = sname],
              result |-> "ok", student_id |-> s]
        ELSE IF sname = <<>>
        THEN [db |-> d, result |-> "name_required", student_id |-> 0]
        ELSE [db |-> InsertStudent(d, sname, sroll),
              result |-> "ok", student_id |-> Len(d.students) + 1]

\* 2. Find or create student
FindOrCreateStudent(d, sroll, sname, fail) ==
    LET s == FindStudent(d, sroll)
    IN  IF s # 0
        THEN [db |-> d, result |-> "ok", student_id |-> s]
        ELSE IF sname = <<>>
        THEN [db |-> d, result |-> "name_required", student_id |-> 0]
        ELSE IF fail = "student_insert" \/ RollTaken(d, sroll)
        THEN [db |-> Uncommitted(d, InsertStudent(d, sname, sroll)),
              result |-> "database_error", student_id |-> 0]
        ELSE [db |-> InsertStudent(d, sname, sroll),
              result |-> "ok", student_id |-> Len(d.students) + 1]

\* Faulty variant: the test for a copy already held left out.
HeldCopyNotChecked(d, book_id, student_id) == FALSE

\* 3. Check if student already has this book
AlreadyIssued(d, book_id, student_id) ==
    \E i \in IssueIds(d) :
        /\ d.issued_books[i].book_id = book_id
        /\ d.issued_books[i].student_id = student_id
        /\ d.issued_books[i].return_date = NULL

\* 4. Record issue
InsertIssue(d, book_id, student_id, day) ==
    [d EXCEPT !.issued_books = Append(@, IssueRow(book_id, student_id, day))]

\* Faulty variant: the UPDATE that takes a copy off the shelf left out.
QuantityNotDecremented(d, book_id) == d

\* 5. Decrement book quantity
DecrementQuantity(d, book_id) ==
    IF book_id \in BookIds(d)
    THEN [d EXCEPT !.books[book_id].quantity = @ - 1]
    ELSE d

\* The two statements of an issue, in one transaction
IssueWrites(d, book_id, student_id, day) ==
    DecrementQuantity(InsertIssue(d, book_id, student_id, day), book_id)

issue_book(d, day, book_id_in, sroll_in, sname_in, fail) ==
    LET book_id == Strip(book_id_in)
        sroll == Strip(sroll_in)
        sname == Strip(sname_in)
        id == SqlInteger(book_id)
        b == IF id.ok /\ id.value \in BookIds(d) THEN id.value ELSE 0
        st == FindOrCreateStudent(d, sroll, sname, fail)
        d1 == st.db
        loan == Len(d.issued_books) + 1
        d2 == IssueWrites(d1, b, st.student_id, day)
    IN  IF book_id = <<>> \/ sroll = <<>>
        THEN Out(d, "input_error", "none", "none", 0, 0)
        ELSE IF fail = "connect"
        THEN Out(d, "database_error", "unbound", fail, 0, 0)
        ELSE IF fail = "select"
        THEN Out(d, "database_error", "closed", fail, 0, 0)
        ELSE IF b = 0
        THEN Out(d, "not_found", "closed", "none", 0, 0)
        ELSE IF ~CopiesLeft(d, b)
        THEN Out(d, "unavailable", "closed", "none", b, 0)
        ELSE IF st.result = "name_required"
        THEN Out(d1, "name_required", "closed", "none", b, 0)
        ELSE IF st.result = "database_error"
        THEN Out(d1, "database_error", "closed", fail, b, 0)
        ELSE IF AlreadyIssued(d1, b, st.student_id)
        THEN Out(d1, "already_issued", "closed", "none", b, 0)
        ELSE IF fail \in {"issue_insert", "decrement", "commit"}
        THEN Out(Uncommitted(d1, d2), "database_error", "closed", fail, b, loan)
        ELSE Out(d2, "issued", "closed", "none", b, loan)

\* ------------------------------------------------------------ ReturnBookFrame
\* UPDATE issued_books SET return_date = ? WHERE id = ?
SetReturnDate(d, issue_id, day) ==
    IF issue_id \in IssueIds(d)
    THEN [d EXCEPT !.issued_books[issue_id].return_date = day]
    ELSE d

\* Faulty variant: the UPDATE that puts the copy back on the shelf left out.
QuantityNotIncremented(d, book_id) == d

\* UPDATE books SET quantity = quantity + 1 WHERE id = ?
IncrementQuantity(d, book_id) ==
    IF book_id \in BookIds(d)
    THEN [d EXCEPT !.books[book_id].quantity = @ + 1]
    ELSE d

\* Faulty variant: a return that is turned into a no-op when the loan
\* already has its return date.
ReturnWritesIfOpen(d, issue_id, book_id, day) ==
    IF issue_id \in IssueIds(d) /\ d.issued_books[issue_id].return_date # NULL
    THEN d
    ELSE IncrementQuantity(SetReturnDate(d, issue_id, day), book_id)

\* The two statements of a return, in one transaction
ReturnWrites(d, issue_id, book_id, day) ==
    IncrementQuantity(SetReturnDate(d, issue_id, day), book_id)

\* issue_id, book_id: columns 0 and 5 of the selected row of the table;
\* confirm: the answer to "Return ... from ...?"
return_book(d, day, selected, issue_id, book_id, confirm, fail) ==
    LET d2 == ReturnWrites(d, issue_id, book_id, day)
    IN  IF ~selected
        THEN Out(d, "no_selection", "none", "none", 0, 0)
        ELSE IF ~confirm
        THEN Out(d, "cancelled", "none", "none", book_id, issue_id)
        ELSE IF fail = "connect"
        THEN Out(d, "database_error", "unbound", fail, book_id, issue_id)
        ELSE IF fail \in {"set_return_date", "increment", "commit"}
        THEN Out(Uncommitted(d, d2), "database_error", "closed", fail,
                 book_id, issue_id)
        ELSE Out(d2, "returned", "closed", "none", book_id, issue_id)

\* ------------------------------------------------------------ the lists
\* ORDER BY i.issue_date [DESC]: i comes before j.  Rows of one date come
\* in the order of their ids (SQL leaves their order open; no property
\* below reads it).
ComesBefore(d, i, j, desc) ==
    LET di == d.issued_books[i].issue_date
        dj == d.issued_books[j].issue_date
    IN  \/ IF desc THEN di > dj ELSE di < dj
        \/ di = dj /\ i <= j

RECURSIVE OrderBy(_, _, _)
OrderBy(d, ids, desc) ==
    IF ids = {} THEN <<>>
    ELSE LET i == CHOOSE i \in ids : \A j \in ids : ComesBefore(d, i, j, desc)
         IN  <<i>> \o OrderBy(d, ids \ {i}, desc)

\* FROM issued_books i JOIN books b ON i.book_id = b.id
\*                     JOIN students s ON i.student_id = s.id
\* : the loans whose book and student are in their tables, each once (the
\* joins are on primary keys)
Joined(d) ==
    {i \in IssueIds(d) :
        /\ d.issued_books[i].book_id \in BookIds(d)
        /\ d.issued_books[i].student_id \in StudentIds(d)}

\* SELECT i.id, b.title, s.name, s.roll_no, i.issue_date, i.book_id
OpenLoanRow(d, i) ==
    LET l == d.issued_books[i]
    IN  [id |-> i, title |-> d.books[l.book_id].title,
         name |-> d.students[l.student_id].name,
         roll_no |-> d.students[l.student_id].roll_no,
         issue_date |-> l.issue_date, book_id |-> l.book_id]

\* Faulty variant: WHERE i.return_date IS NULL left out.
load_issued_unfiltered(d, fail) ==
    LET ids == OrderBy(d, Joined(d), FALSE)
    IN  Loaded([k \in DOMAIN ids |-> OpenLoanRow(d, ids[k])], "listed", "closed")

\* ReturnBookFrame.load_issued_books: the table is emptied first, then
\* filled from the query; no finally closes the connection.
load_issued_books(d, fail) ==
    LET ids == OrderBy(d, {i \in Joined(d) : d.issued_books[i].return_date = NULL},
                       FALSE)
    IN  IF fail = "connect" THEN Loaded(<<>>, "database_error", "none")
        ELSE IF fail = "select" THEN Loaded(<<>>, "database_error", "left_open")
        ELSE Loaded([k \in DOMAIN ids |-> OpenLoanRow(d, ids[k])], "listed", "closed")

NotReturned == "--- Not Returned ---"

\* SELECT i.id, b.title, s.name, s.roll_no, i.issue_date, i.return_date
\* with None shown as "--- Not Returned ---"
HistoryRow(d, i) ==
    LET l == d.issued_books[i]
    IN  [id |-> i, title |-> d.books[l.book_id].title,
         name |-> d.students[l.student_id].name,
         roll_no |-> d.students[l.student_id].roll_no,
         issue_date |-> l.issue_date,
         return_date |-> IF l.return_date = NULL THEN NotReturned
                         ELSE l.return_date]

\* ViewIssuedBooksFrame.load_all_issued
load_all_issued(d, fail) ==
    LET ids == OrderBy(d, Joined(d), TRUE)
    IN  IF fail = "connect" THEN Loaded(<<>>, "database_error", "none")
        ELSE IF fail = "select" THEN Loaded(<<>>, "database_error", "left_open")
        ELSE Loaded([k \in DOMAIN ids |-> HistoryRow(d, ids[k])], "listed", "closed")

\* ------------------------------------------------------------ inputs
\* What is typed into the entries: plain and padded text, and the forms
\* that the validation turns away (a blank field, a quantity that is no
\* number or is negative).
Titles == {<<" ", "D">>}

Authors == {<<"H">>}

Quantities == {NumText(n) : n \in 0..MaxQty}

BookForm(title, author, qty) == [title |-> title, author |-> author, qty |-> qty]

ValidBookForms ==
    {BookForm(t, a, q) : t \in Titles, a \in Authors, q \in Quantities}

InvalidBookForms ==
    {BookForm(<<>>, <<"H">>, <<"1">>), BookForm(<<"D">>, <<" ">>, <<"1">>),
     BookForm(<<"D">>, <<"H">>, <<>>), BookForm(<<"D">>, <<"H">>, <<"x">>),
     BookForm(<<"D">>, <<"H">>, <<"-", "1">>)}

\* roll number and name typed in: a first student under two names or
\* none, a second under one name or none
Students ==
    {<<<<"r">>, <<"A">>>>, <<<<"r">>, <<"B", " ">>>>, <<<<"r">>, <<>>>>,
     <<<<"s", " ">>, <<"A">>>>, <<<<"s">>, <<" ">>>>}

IssueForm(book_id, sroll, sname) ==
    [book_id |-> book_id, sroll |-> sroll, sname |-> sname]

IssueFormsOf(ids) ==
    {IssueForm(NumText(b), s[1], s[2]) : b \in ids, s \in Students}

ValidIssueForms == IssueFormsOf(1..MaxBooks)

InvalidIssueForms ==
    {IssueForm(<<>>, <<"r">>, <<"A">>), IssueForm(<<"1">>, <<" ">>, <<"A">>),
     IssueForm(<<"x">>, <<"r">>, <<"A">>)}

\* The statement of a handler that raises
SaveBookFails == {"none", "connect", "insert", "commit"}

UpdateFails == {"none", "connect", "update", "commit"}

DeleteFails == {"none", "connect", "select", "delete", "commit"}

IssueFails ==
    {"none", "connect", "select", "student_insert", "issue_insert",
     "decrement", "commit"}

\* What is typed into the search entry
Searches == {<<>>, <<"d", " ">>, <<"_">>, <<"h">>}

\* The statement of a load that raises
LoadFails == {"none", "connect", "select"}

ReturnFails == {"none", "connect", "set_return_date", "increment", "commit"}

\* ------------------------------------------------------------ specification
Store(d) ==
    /\ books' = d.books
    /\ book_seq' = d.book_seq
    /\ students' = d.students
    /\ issued_books' = d.issued_books

\* A handler has run: the store is what it left committed.
Handled(out) ==
    /\ Store(out.db)
    /\ UNCHANGED <<today, returned_again, given, page, tree>>

\* A handler of books has run, and is noted: the quantity a new book was
\* given, and that a book has been changed or deleted.
HandledBook(out) ==
    /\ Store(out.db)
    /\ given' =
           IF returned_again THEN <<>>
           ELSE IF out.result = "added"
           THEN (out.book :> out.db.books[out.book].quantity) @@ given
           ELSE IF out.result \in {"updated", "deleted"}
           THEN [b \in DOMAIN given \ {out.book} |-> given[b]]
           ELSE given
    /\ UNCHANGED <<today, returned_again, page, tree>>

\* A return has run on the row of loan issue_id, and is noted if the loan
\* had been returned before.
NotedReturn(out, issue_id) ==
    /\ Store(out.db)
    /\ returned_again' =
           (\/ returned_again
            \/ /\ out.result = "returned"
               /\ issue_id \in DOMAIN issued_books
               /\ issued_books[issue_id].return_date # NULL)
    /\ given' = IF returned_again' THEN <<>> ELSE given
    /\ UNCHANGED today

HandledReturn(out, issue_id) ==
    /\ NotedReturn(out, issue_id)
    /\ UNCHANGED <<page, tree>>

Init ==
    /\ books = init_db.books
    /\ book_seq = init_db.book_seq
    /\ students = init_db.students
    /\ issued_books = init_db.issued_books
    /\ today = 1
    /\ returned_again = FALSE
    /\ given = <<>>
    /\ page = "MainMenuFrame"
    /\ tree = <<>>

\* room: the bounds leave room for a book; noted says whether the step is
\* noted in the history.
AddBookOn(room, noted) ==
    \/ \E f \in ValidBookForms, fail \in SaveBookFails :
        /\ room
        /\ \A out \in {save_book(db, f.title, f.author, f.qty, fail)} :
            IF noted THEN HandledBook(out) ELSE Handled(out)
    \/ \E f \in InvalidBookForms :
        Handled(save_book(db, f.title, f.author, f.qty, "none"))

AddBook == AddBookOn(book_seq < MaxBooks, FALSE)

AddBookNoted == AddBookOn(book_seq < MaxBooks, TRUE)

\* Books added in the place of deleted ones: at most MaxBooks rows at a
\* time, and ids up to MaxIds.
AddBookAgain ==
    AddBookOn(Cardinality(DOMAIN books) < MaxBooks /\ book_seq < MaxIds, FALSE)

\* ids: the ids a call may name
UpdateBookOn(ids, noted) ==
    \E book_id \in ids :
        \/ \E f \in ValidBookForms, fail \in UpdateFails :
            \A out \in {save_update(db, book_id, f.title, f.author, f.qty, fail)} :
                IF noted THEN HandledBook(out) ELSE Handled(out)
        \/ \E f \in InvalidBookForms :
            Handled(save_update(db, book_id, f.title, f.author, f.qty, "none"))

UpdateBook == UpdateBookOn(1..MaxBooks, FALSE)

UpdateBookNoted == UpdateBookOn(1..MaxBooks, TRUE)

DeleteBookOn(ids, noted) ==
    \/ Handled(delete_selected(db, FALSE, 0, FALSE, "none"))
    \/ \E book_id \in ids :
        \/ Handled(delete_selected(db, TRUE, book_id, FALSE, "none"))
        \/ \E fail \in DeleteFails :
            \A out \in {delete_selected(db, TRUE, book_id, TRUE, fail)} :
                IF noted THEN HandledBook(out) ELSE Handled(out)

DeleteBook == DeleteBookOn(1..MaxBooks, FALSE)

DeleteBookNoted == DeleteBookOn(1..MaxBooks, TRUE)

IssueBookOn(forms) ==
    \/ \E f \in forms, fail \in IssueFails :
        /\ Len(issued_books) < MaxLoans
        /\ Handled(issue_book(db, today, f.book_id, f.sroll, f.sname, fail))
    \/ \E f \in InvalidIssueForms :
        Handled(issue_book(db, today, f.book_id, f.sroll, f.sname, "none"))

IssueBook == IssueBookOn(ValidIssueForms)

\* The selected row names a loan of the table and, in its hidden column,
\* that loan's book.  The row may be one listed earlier: of a loan that
\* has been returned since.
ReturnRows ==
    {<<i, issued_books[i].book_id>> : i \in DOMAIN issued_books}

\* return_book on one of rows; noted says whether a second return of a
\* loan is noted.
ReturnBookOn(rows, noted) ==
    \/ Handled(return_book(db, today, FALSE, 0, 0, FALSE, "none"))
    \/ \E r \in rows :
        \/ Handled(return_book(db, today, TRUE, r[1], r[2], FALSE, "none"))
        \/ \E fail \in ReturnFails :
            /\ QtyOf(db, r[2]) <= MaxQty
            /\ \A out \in {return_book(db, today, TRUE, r[1], r[2], TRUE, fail)} :
                IF noted THEN HandledReturn(out, r[1]) ELSE Handled(out)

ReturnBook == ReturnBookOn(ReturnRows, FALSE)

\* The same step, noting a second return of a loan.
ReturnBookNoted == ReturnBookOn(ReturnRows, TRUE)

\* A row that names a loan that is not in the table, and any book.
UnknownRows ==
    {r \in (1..MaxLoans) \X (1..MaxBooks) : r[1] \notin DOMAIN issued_books}

ReturnUnknown == ReturnBookOn(UnknownRows, FALSE)

\* date.today() moves on
NextDay ==
    /\ today < MaxDay
    /\ today' = today + 1
    /\ UNCHANGED <<books, book_seq, students, issued_books, returned_again, given,
                   page, tree>>

\* The handlers on one day, on rows and ids of the tables.  No handler
\* reads a stored date, other than to see whether return_date is NULL.
Next == AddBook \/ UpdateBook \/ DeleteBook \/ IssueBook \/ ReturnBook

Spec == Init /\ [][Next]_vars

\* The handlers over several days.
NextClock == Next \/ NextDay

SpecClock == Init /\ [][NextClock]_vars

\* The handlers, with their history noted.
NextNoted ==
    AddBookNoted \/ UpdateBookNoted \/ DeleteBookNoted \/ IssueBook \/ ReturnBookNoted

SpecNoted == Init /\ [][NextNoted]_vars

\* The handlers called with any loan id, in the table or not.
NextAnyRow == Next \/ ReturnUnknown

SpecAnyRow == Init /\ [][NextAnyRow]_vars

\* The handlers, with books added after books were deleted; an update
\* names a row of the table.
NextIds ==
    \/ AddBookAgain
    \/ UpdateBookOn(DOMAIN books, FALSE)
    \/ DeleteBookOn(1..MaxIds, FALSE)
    \/ IssueBookOn(IssueFormsOf(1..MaxIds))
    \/ ReturnBook

SpecIds == Init /\ [][NextIds]_vars

\* ------------------------------------------------------------ the window
\* The frames with a "Back to Menu" button
ContentFrames ==
    {"ViewBooksFrame", "AddBookFrame", "IssueBookFrame", "ReturnBookFrame",
     "ViewIssuedBooksFrame"}

\* ReturnBookFrame.refresh, as show_frame and the "Refresh List" button
\* call it
refresh(d, fail) == load_issued_books(d, fail).tree

\* Faulty variant: the table is left as it is after a return.
TreeNotRefreshed(rows, d, fail) == rows

\* self.refresh() after "Book returned successfully."
RefreshedTree(rows, d, fail) == refresh(d, fail)

\* show_frame(F): a button of the main menu, or "Back to Menu"; the frame
\* is refreshed, then raised.  Of the refreshes, that of ReturnBookFrame
\* fills the table the returns are picked from; those of the other frames
\* clear entries or fill tables that are read on their own page only.
show_frame(F) ==
    /\ IF page = "MainMenuFrame" THEN F \in ContentFrames ELSE F = "MainMenuFrame"
    /\ page' = F
    /\ IF F = "ReturnBookFrame"
       THEN \E fail \in LoadFails : tree' = refresh(db, fail)
       ELSE tree' = tree
    /\ UNCHANGED <<books, book_seq, students, issued_books, today,
                   returned_again, given>>

ShowFrame == \E F \in ContentFrames \cup {"MainMenuFrame"} : show_frame(F)

\* "Save Book" on its page
AddBookPage == page = "AddBookFrame" /\ AddBook

\* "Update Selected" (a modal window) and "Delete Selected" on the page of
\* the book table, whose rows are rows of books: the table is filled when
\* the page is shown and after every update and delete.
BooksPage ==
    /\ page = "ViewBooksFrame"
    /\ UpdateBookOn(DOMAIN books, FALSE) \/ DeleteBookOn(DOMAIN books, FALSE)

\* "Issue Book" on its page
IssuePage == page = "IssueBookFrame" /\ IssueBook

\* "Return Selected Book": the row in focus is a row of the table; the
\* table is filled again after a return that succeeded.
ReturnSelected ==
    \/ Handled(return_book(db, today, FALSE, 0, 0, FALSE, "none"))
    \/ \E k \in DOMAIN tree :
        \/ Handled(return_book(db, today, TRUE, tree[k].id, tree[k].book_id,
                               FALSE, "none"))
        \/ \E fail \in ReturnFails, load_fail \in LoadFails :
            /\ QtyOf(db, tree[k].book_id) <= MaxQty
            /\ \A out \in {return_book(db, today, TRUE, tree[k].id,
                                       tree[k].book_id, TRUE, fail)} :
                /\ NotedReturn(out, tree[k].id)
                /\ tree' = IF out.result = "returned"
                           THEN RefreshedTree(tree, out.db, load_fail)
                           ELSE tree
                /\ page' = page

\* "Refresh List"
RefreshList ==
    /\ \E fail \in LoadFails : tree' = refresh(db, fail)
    /\ UNCHANGED <<books, book_seq, students, issued_books, today,
                   returned_again, given, page>>

ReturnPage == page = "ReturnBookFrame" /\ (ReturnSelected \/ RefreshList)

\* One running instance of the application: each handler on its page.
NextWindow == ShowFrame \/ AddBookPage \/ BooksPage \/ IssuePage \/ ReturnPage

SpecWindow == Init /\ [][NextWindow]_vars

\* ------------------------------------------------------------ properties
\* The rows a property speaks of, read from the store itself.
OpenLoans(book_id, student_id) ==
    {i \in DOMAIN issued_books :
        /\ issued_books[i].book_id = book_id
        /\ issued_books[i].student_id = student_id
        /\ issued_books[i].return_date = NULL}

OpenLoansOf(book_id) ==
    {i \in DOMAIN issued_books :
        /\ issued_books[i].book_id = book_id
        /\ issued_books[i].return_date = NULL}

ReturnedLoansOf(book_id) ==
    {i \in DOMAIN issued_books :
        /\ issued_books[i].book_id = book_id
        /\ issued_books[i].return_date # NULL}

StudentsWithRoll(roll) ==
    {s \in DOMAIN students : students[s].roll_no = roll}

\* IssueBook(bookId, roll, name) with nothing raising, and with the
\* statement fail raising
Issue(b, s) == issue_book(db, today, NumText(b), s[1], s[2], "none")

IssueFailing(b, s, fail) == issue_book(db, today, NumText(b), s[1], s[2], fail)

\* ReturnBook(loanId), the row naming book b
Return(i, b) == return_book(db, today, TRUE, i, b, TRUE, "none")

\* DeleteBook(id), confirmed
Delete(b) == delete_selected(db, TRUE, b, TRUE, "none")

\* C1: every book in the table has quantity >= 0, and an IssueBook of a
\* book whose quantity is 0 is turned away as unavailable and changes
\* nothing.
C1_QuantityNeverNegative ==
    /\ \A b \in DOMAIN books : books[b].quantity >= 0
    /\ \A b \in DOMAIN books, s \in Students :
        books[b].quantity = 0 =>
            /\ Issue(b, s).result = "unavailable"
            /\ Issue(b, s).db = db

\* A book whose last copy has been issued.
C1_Witness ==
    \E b \in DOMAIN books :
        /\ books[b].quantity = 0
        /\ OpenLoansOf(b) # {}
        /\ \E s \in Students : Issue(b, s).result = "unavailable"

\* C2: no (book, student) pair has two loans with return_date NULL, and an
\* IssueBook for a pair that holds an open loan does not succeed and
\* inserts no loan, whichever statement raises.
C2_OneOpenLoanPerPair ==
    /\ \A i, j \in DOMAIN issued_books :
        (/\ i # j
         /\ issued_books[i].book_id = issued_books[j].book_id
         /\ issued_books[i].student_id = issued_books[j].student_id
         /\ issued_books[i].return_date = NULL)
        => issued_books[j].return_date # NULL
    /\ \A b \in DOMAIN books, s \in Students, fail \in IssueFails :
        (\E st \in StudentsWithRoll(Strip(s[1])) : OpenLoans(b, st) # {}) =>
            \A out \in {IssueFailing(b, s, fail)} :
                /\ out.result # "issued"
                /\ out.db.issued_books = issued_books

\* A student who has returned a book, holds it again, and is refused a
\* second copy while copies are left.
C2_Witness ==
    \E b \in DOMAIN books, st \in DOMAIN students :
        /\ OpenLoans(b, st) # {}
        /\ \E i \in ReturnedLoansOf(b) : issued_books[i].student_id = st
        /\ books[b].quantity > 0
        /\ \E s \in Students :
            /\ Strip(s[1]) = students[st].roll_no
            /\ Issue(b, s).result = "already_issued"

\* C3: wherever IssueBook of a book succeeds, ReturnBook of the loan it
\* created, run next, succeeds and leaves the book's quantity at its
\* value before the IssueBook.
C3_IssueReturnRoundTrip ==
    \A b \in DOMAIN books, s \in Students :
        Issue(b, s).result = "issued" =>
            LET back == return_book(Issue(b, s).db, today, TRUE,
                                    Issue(b, s).loan, Issue(b, s).book, TRUE, "none")
            IN  /\ back.result = "returned"
                /\ back.db.books[b].quantity = books[b].quantity

\* A book that has been issued and returned and can be issued again.
C3_Witness ==
    \E b \in DOMAIN books :
        /\ ReturnedLoansOf(b) # {}
        /\ OpenLoansOf(b) = {}
        /\ \E s \in Students : Issue(b, s).result = "issued"

\* C4: DeleteBook of a book with an open loan fails, whichever statement
\* raises, and leaves every table as it was; and every open loan is of a
\* book that is in the table.
C4_DeleteKeepsIssuedBook ==
    /\ \A b \in 1..MaxBooks, fail \in DeleteFails :
        OpenLoansOf(b) # {} =>
            /\ Delete(b).result = "currently_issued"
            /\ delete_selected(db, TRUE, b, TRUE, fail).result
                   \in {"currently_issued", "database_error"}
            /\ delete_selected(db, TRUE, b, TRUE, fail).db = db
    /\ \A i \in DOMAIN issued_books :
        issued_books[i].return_date = NULL => issued_books[i].book_id \in DOMAIN books

\* A book on loan, whose delete is refused.
C4_Witness ==
    \E b \in DOMAIN books :
        /\ OpenLoansOf(b) # {}
        /\ Delete(b).result = "currently_issued"

\* C5: no two student rows share a roll number; an IssueBook for a roll
\* number that has a row leaves the students table as it is, whatever
\* name is typed in; one for a roll number without a row adds at most one
\* row, and when it succeeds exactly the row (name, roll number).
C5_StudentPerRollNumber ==
    /\ \A s, t \in DOMAIN students :
        students[s].roll_no = students[t].roll_no => s = t
    /\ \A b \in 1..MaxBooks, s \in Students, fail \in IssueFails :
        \A out \in {IssueFailing(b, s, fail)} :
            /\ StudentsWithRoll(Strip(s[1])) # {} => out.db.students = students
            /\ StudentsWithRoll(Strip(s[1])) = {} =>
                /\ out.db.students \in
                       {students, Append(students, StudentRow(Strip(s[2]), Strip(s[1])))}
                /\ out.result = "issued" =>
                       out.db.students =
                           Append(students, StudentRow(Strip(s[2]), Strip(s[1])))

\* A student on record to whom a book can be issued under another name.
C5_Witness ==
    \E b \in DOMAIN books, s \in Students, st \in DOMAIN students :
        /\ Strip(s[1]) = students[st].roll_no
        /\ Strip(s[2]) \notin {<<>>, students[st].name}
        /\ \E i \in DOMAIN issued_books : issued_books[i].student_id = st
        /\ Issue(b, s).result = "issued"

\* C6: an IssueBook or a ReturnBook that raises at its second write or at
\* its commit leaves books and issued_books as they were; and whichever
\* statement raises, an IssueBook leaves a new loan exactly when it leaves
\* the quantity one lower, and a ReturnBook of an open loan leaves the
\* return date set exactly when it leaves the quantity one higher.
C6_IssueAndReturnAtomic ==
    /\ \A b \in DOMAIN books, s \in Students, fail \in IssueFails :
        \A out \in {IssueFailing(b, s, fail)} :
            /\ (out.raised \in {"decrement", "commit"}) =>
                /\ out.db.issued_books = issued_books
                /\ out.db.books = books
            /\ (Len(out.db.issued_books) = Len(issued_books) + 1)
                   <=> (out.db.books[b].quantity = books[b].quantity - 1)
            /\ Len(out.db.issued_books) \in {Len(issued_books), Len(issued_books) + 1}
            /\ out.db.books[b].quantity \in {books[b].quantity, books[b].quantity - 1}
    /\ \A i \in DOMAIN issued_books, fail \in ReturnFails :
        \A b \in {issued_books[i].book_id} :
        \A out \in {return_book(db, today, TRUE, i, b, TRUE, fail)} :
            /\ (out.raised \in {"increment", "commit"}) =>
                /\ out.db.issued_books = issued_books
                /\ out.db.books = books
            /\ (issued_books[i].return_date = NULL /\ b \in DOMAIN books) =>
                /\ (out.db.issued_books[i].return_date # NULL)
                       <=> (out.db.books[b].quantity = books[b].quantity + 1)
                /\ out.db.books[b].quantity
                       \in {books[b].quantity, books[b].quantity + 1}

\* A store in which an issue and a return both get past their first write
\* before the second raises.
C6_Witness ==
    /\ \E b \in DOMAIN books, s \in Students :
        /\ IssueFailing(b, s, "decrement").raised = "decrement"
        /\ IssueFailing(b, s, "decrement").result = "database_error"
    /\ \E i \in DOMAIN issued_books :
        /\ issued_books[i].return_date = NULL
        /\ return_book(db, today, TRUE, i, issued_books[i].book_id, TRUE,
                       "increment").raised = "increment"

\* The warnings with which issue_book turns a request away
IssueRejections ==
    {"input_error", "not_found", "unavailable", "name_required", "already_issued"}

\* C7: an IssueBook turned away by one of its checks (a blank field, no
\* such book, no copy left, no name for a new roll number, a copy already
\* held) leaves books, students and issued_books exactly as they were.
C7_RejectedIssueChangesNothing ==
    \A f \in ValidIssueForms \cup InvalidIssueForms :
        \A out \in {issue_book(db, today, f.book_id, f.sroll, f.sname, "none")} :
            out.result \in IssueRejections => out.db = db

\* A store in which one issue is refused for a copy already held and
\* another for the missing name of a new student.
C7_Witness ==
    /\ \E b \in DOMAIN books, s \in Students : Issue(b, s).result = "already_issued"
    /\ \E b \in DOMAIN books, s \in Students : Issue(b, s).result = "name_required"

\* C8: an IssueBook that ends in a database error leaves none of its
\* writes behind: books, students and issued_books are as they were, also
\* when the roll number was new and the insert of the loan or the
\* decrement raised.
C8_FailedIssueLeavesNothing ==
    \A b \in 1..MaxBooks, s \in Students, fail \in IssueFails :
        \A out \in {IssueFailing(b, s, fail)} :
            out.result = "database_error" => out.db = db

ListedIds(rows) == {rows[k].id : k \in DOMAIN rows}

\* C13: ListLoanHistory lists every row of issued_books, open and closed,
\* once each, also the loans of a book that has been deleted.
C13_HistoryListsEveryLoan ==
    \A out \in {load_all_issued(db, "none")} :
        /\ ListedIds(out.tree) = DOMAIN issued_books
        /\ Len(out.tree) = Len(issued_books)

\* C14: ListOpenLoans lists exactly the loans with return_date NULL, once
\* each: every open loan has its book and its student in their tables.
C14_OpenLoansAllListed ==
    /\ \A out \in {load_issued_books(db, "none")} :
        /\ ListedIds(out.tree) = {i \in DOMAIN issued_books :
                                     issued_books[i].return_date = NULL}
        /\ \A k, m \in DOMAIN out.tree : out.tree[k].id = out.tree[m].id => k = m
    /\ \A i \in DOMAIN issued_books :
        issued_books[i].return_date = NULL =>
            /\ issued_books[i].book_id \in DOMAIN books
            /\ issued_books[i].student_id \in DOMAIN students

\* An open loan is listed, beside a returned loan that is not.
C14_Witness ==
    /\ \E i \in DOMAIN issued_books : issued_books[i].return_date # NULL
    /\ \E i \in DOMAIN issued_books : issued_books[i].return_date = NULL
    /\ Len(load_issued_books(db, "none").tree) = 1

\* close() has run on the connection, or none was opened
Released(out) == out.conn \in {"none", "unbound", "closed"}

\* C15: every operation that opens a connection has closed it when it
\* ends, on every path: whatever is typed in and whichever statement
\* raises, no handler and no load leaves its connection open.
C15_ConnectionsReleased ==
    /\ \A f \in ValidBookForms \cup InvalidBookForms, fail \in SaveBookFails :
        Released(save_book(db, f.title, f.author, f.qty, fail))
    /\ \A b \in 1..MaxBooks, f \in ValidBookForms \cup InvalidBookForms,
          fail \in UpdateFails :
        Released(save_update(db, b, f.title, f.author, f.qty, fail))
    /\ \A b \in 1..MaxBooks, fail \in DeleteFails :
        Released(delete_selected(db, TRUE, b, TRUE, fail))
    /\ \A q \in Searches, fail \in LoadFails : Released(search_action(db, q, fail))
    /\ \A f \in ValidIssueForms \cup InvalidIssueForms, fail \in IssueFails :
        Released(issue_book(db, today, f.book_id, f.sroll, f.sname, fail))
    /\ \A i \in 1..MaxLoans, b \in 1..MaxBooks, fail \in ReturnFails :
        Released(return_book(db, today, TRUE, i, b, TRUE, fail))
    /\ \A fail \in LoadFails :
        /\ Released(load_issued_books(db, fail))
        /\ Released(load_all_issued(db, fail))

\* C16: as long as no loan has been returned a second time, every book
\* that no UpdateBook has changed has quantity + open loans equal to the
\* quantity AddBook gave it.
C16_QuantityPlusOpenLoans ==
    ~returned_again =>
        \A b \in DOMAIN given :
            /\ b \in DOMAIN books
            /\ books[b].quantity + Cardinality(OpenLoansOf(b)) = given[b]

\* A book as AddBook made it, with a loan returned once and a loan open.
C16_Witness ==
    /\ ~returned_again
    /\ \E b \in DOMAIN given :
        /\ OpenLoansOf(b) # {}
        /\ ReturnedLoansOf(b) # {}
        /\ books[b].quantity + 1 = given[b]

\* C17: in the running application a return is only ever applied to an
\* open loan: no loan is ever returned a second time; every row of the
\* table of the Return page is of a loan that is open, each loan once;
\* and while the page is shown the table holds all the open loans, or is
\* empty after a load that raised.
C17_ReturnOnlyOfOpenLoans ==
    /\ ~returned_again
    /\ \A k \in DOMAIN tree :
        /\ tree[k].id \in DOMAIN issued_books
        /\ issued_books[tree[k].id].return_date = NULL
        /\ issued_books[tree[k].id].book_id = tree[k].book_id
    /\ \A k, m \in DOMAIN tree : tree[k].id = tree[m].id => k = m
    /\ page = "ReturnBookFrame" =>
           \/ tree = <<>>
           \/ ListedIds(tree) = {i \in DOMAIN issued_books :
                                     issued_books[i].return_date = NULL}

\* The Return page after a return: the returned loan is off the table and
\* a loan that is open is on it.
C17_Witness ==
    /\ page = "ReturnBookFrame"
    /\ tree # <<>>
    /\ \E i \in DOMAIN issued_books :
        /\ issued_books[i].return_date # NULL
        /\ i \notin ListedIds(tree)

\* C18: a book id is never used again.  Every id in books is at most the
\* sequence of the table; in every step the sequence does not fall and a
\* new row of books gets an id above it; and a loan whose book is not in
\* the table does not come to name a book of the table.
C18_BookIdNeverReused ==
    [][/\ book_seq' >= book_seq
       /\ \A b \in DOMAIN books : b <= book_seq
       /\ \A b \in DOMAIN books' : b \notin DOMAIN books => b > book_seq
       /\ \A i \in DOMAIN issued_books :
           issued_books[i].book_id \notin DOMAIN books =>
               issued_books'[i].book_id \notin DOMAIN books']_vars

\* A book added after the delete of a book that had been on loan.
C18_Witness ==
    \E i \in DOMAIN issued_books, b \in DOMAIN books :
        /\ issued_books[i].book_id \notin DOMAIN books
        /\ b > issued_books[i].book_id

=============================================================================
